---- MODULE Spec2Model ----
(***************************************************************************)
(* Agentic build-repair pipeline of omega-builder-server.                  *)
(*                                                                         *)
(*   backend/app/integrations/agent/tools.py   sandbox filesystem tools    *)
(*   backend/app/services/agent_service.py     agent loop                  *)
(*   backend/app/services/compile_loop.py      test runner, repairer       *)
(*                                                                         *)
(* Several specifications share the module; each drives one subsystem and  *)
(* leaves the variables of the others at their initial values.             *)
(*                                                                         *)
(* Filesystem model.  An absolute path is a sequence of names, the empty   *)
(* sequence being "/".  A filesystem is a function from the set of         *)
(* existing absolute paths to nodes; a node is a directory or a file whose *)
(* data is a sequence of tokens.  There are no symbolic links, so          *)
(* Path.resolve() is the lexical normalisation of "..".                    *)
(***************************************************************************)
EXTENDS Integers, Sequences, FiniteSets, TLC

VARIABLES
    fs,        \* the filesystem of the host
    tcalls,    \* SpecTools: number of tool calls made so far
    last,      \* SpecTools: the last tool call: name, path argument, result, filesystem before
    \* ---- agent loop (adapt_repository_with_agent) ----
    apc,           \* position: "idle", "head", "call", "tools", "finalize", "returned", "raised"
    cfg,           \* the run's inputs: [budget, turn_timeout, validate_only]
    now,           \* time.monotonic() since the run's deadline was set, in seconds
    step,          \* loop variable of the turn loop
    attempt,       \* _chat_with_retries: attempt counter of the turn's call
    callStart,     \* time at which the turn's wait_for started
    per_turn_budget, \* timeout handed to wait_for in this turn
    pending,       \* tool calls of the current assistant message not yet executed
    tool_log,      \* tool_log
    touched_paths, \* touched_paths (as the set finalization reduces it to)
    exc,           \* an exception is propagating out of the try block
    report,        \* the value returned to the caller, or NoReport
    hist,          \* history: counters and flags about the run so far
    pbar,          \* _Pbar.cur, and the progress values a subscriber of the job has seen
    \* ---- idle-aware test runner (_run_test_machine) ----
    rn,            \* the runner: position, locals (t0, last_activity, chunks, lines read)
    proc,          \* the child process: alive, exit code, pipes, time of its last output
    clock,         \* time.time() in seconds
    rresult,       \* the CmdResult returned, with the branch that returned it
    prev,          \* the CmdResult of an earlier run, and how many runs were made
    \* ---- heuristic repairer (_apply_fixes) ----
    fx,            \* position, diagnostic text, matches left, origin, pass, last file made
    \* ---- progress bus (ProgressBus) ----
    bus,           \* subscribers, their queues, what each has consumed, what was published
    \* ---- repair loop (run_compile_loop) ----
    cl,            \* position, round, recorded rounds, last results, report
    \* ---- agent runs in one process (adapt_repository_with_agent) ----
    runs,          \* per run: position, turn, pending calls, conversation log, paths written
    \* ---- job queue (job_queue.py) ----
    jq             \* the Redis list, status hashes and idempotency pointer; callers; worker

toolVars == <<tcalls, last>>
agentVars == <<apc, cfg, now, step, attempt, callStart, per_turn_budget, pending,
               tool_log, touched_paths, exc, report, hist, pbar>>
runnerVars == <<rn, proc, clock, rresult, prev>>

fixVars == <<fx>>
busVars == <<bus>>
loopVars == <<cl>>
runsVars == <<runs>>
queueVars == <<jq>>

exceptTools == <<agentVars, runnerVars, fixVars, busVars, loopVars, runsVars, queueVars>>
exceptAgent == <<toolVars, runnerVars, fixVars, busVars, loopVars, runsVars, queueVars>>
exceptRunner == <<fs, toolVars, agentVars, fixVars, busVars, loopVars, runsVars, queueVars>>
exceptFix == <<toolVars, agentVars, runnerVars, busVars, loopVars, runsVars, queueVars>>
exceptBus == <<fs, toolVars, agentVars, runnerVars, fixVars, loopVars, runsVars, queueVars>>
exceptLoop == <<fs, toolVars, agentVars, runnerVars, fixVars, busVars, runsVars, queueVars>>
exceptRuns == <<toolVars, agentVars, runnerVars, fixVars, busVars, loopVars, queueVars>>
exceptQueue == <<fs, toolVars, agentVars, runnerVars, fixVars, busVars, loopVars, runsVars>>

----------------------------------------------------------------------------
(* Paths *)

DirNode == [dir |-> TRUE, data |-> <<>>]
FileNode(d) == [dir |-> FALSE, data |-> d]

Front(s) == SubSeq(s, 1, Len(s) - 1)

IsPrefix(p, q) == Len(p) <= Len(q) /\ SubSeq(q, 1, Len(p)) = p

\* pathlib "/" followed by resolve(): an absolute segment discards the base,
\* ".." pops the last component (and stays at "/"), a name is appended.
RECURSIVE Resolve(_, _)
Resolve(base, p) ==
    IF p = <<>> THEN base
    ELSE LET s == Head(p) IN
         Resolve(IF s = "/" THEN <<>>
                 ELSE IF s = ".." THEN (IF base = <<>> THEN <<>> ELSE Front(base))
                 ELSE Append(base, s),
                 Tail(p))

REPO_ROOT == <<"repo">>

\* Path.is_relative_to(base)
IsWithin(base, p) == IsPrefix(base, p)

Exists(f, p) == p \in DOMAIN f
IsDir(f, p) == p \in DOMAIN f /\ f[p].dir
IsFile(f, p) == p \in DOMAIN f /\ ~f[p].dir

Ancestors(p) == {SubSeq(p, 1, n) : n \in 0..(Len(p) - 1)}

\* Path.mkdir(parents=True, exist_ok=True): fails when the path or one of its
\* ancestors is a file, and then creates nothing.
MkdirOk(f, p) == \A a \in Ancestors(p) \cup {p} : ~IsFile(f, a)
MkdirP(f, p) ==
    [q \in DOMAIN f \cup Ancestors(p) \cup {p} |-> IF q \in DOMAIN f THEN f[q] ELSE DirNode]

\* Path.write_text / open("w"): the parent must be a directory and the path no directory.
CanWrite(f, p) == p # <<>> /\ IsDir(f, Front(p)) /\ ~IsDir(f, p)
PutFile(f, p, d) == [q \in DOMAIN f \cup {p} |-> IF q = p THEN FileNode(d) ELSE f[q]]

\* shutil.rmtree / unlink: the path and everything beneath it.
Remove(f, p) == [q \in {x \in DOMAIN f : ~IsPrefix(p, x)} |-> f[q]]

HasChildren(f, p) == \E q \in DOMAIN f : q # p /\ IsPrefix(p, q)

----------------------------------------------------------------------------
(* Sandbox filesystem tools (tools.py).  Every tool returns its result      *)
(* record and the filesystem it leaves: [ok, fs].                           *)

\* "error" is the result's error text, empty when ok.
Res(ok, f) == [ok |-> ok, fs |-> f, error |-> IF ok THEN "" ELSE "error"]

\* fs_write(path, content, mode): no confinement check is made on fp.
fs_write(f, path, content, mode) ==
    IF mode \notin {"w", "a"} THEN Res(FALSE, f)
    ELSE LET fp == Resolve(REPO_ROOT, path)
             par == Front(fp)
         IN  IF ~MkdirOk(f, par) THEN Res(FALSE, f)
             ELSE LET f1 == MkdirP(f, par)
                  IN  IF ~CanWrite(f1, fp) THEN Res(FALSE, f1)
                      ELSE Res(TRUE, PutFile(f1, fp,
                                   IF mode = "a" /\ IsFile(f1, fp)
                                   THEN f1[fp].data \o <<content>>
                                   ELSE <<content>>))

\* fs_mkdir(path, exist_ok, parents)
fs_mkdir(f, path, exist_ok, parents) ==
    LET fp == Resolve(REPO_ROOT, path)
    IN  IF Exists(f, fp) THEN Res(exist_ok /\ IsDir(f, fp), f)
        ELSE IF IsDir(f, Front(fp)) THEN Res(TRUE, MkdirP(f, fp))
        ELSE IF parents /\ MkdirOk(f, fp) THEN Res(TRUE, MkdirP(f, fp))
        ELSE Res(FALSE, f)

\* fs_delete(path, recursive)
fs_delete(f, path, recursive) ==
    LET fp == Resolve(REPO_ROOT, path)
    IN  IF IsDir(f, fp)
        THEN IF recursive THEN Res(TRUE, IF fp = <<>> THEN (<<>> :> DirNode) ELSE Remove(f, fp))
             ELSE IF HasChildren(f, fp) \/ fp = <<>> THEN Res(FALSE, f)
             ELSE Res(TRUE, Remove(f, fp))
        ELSE IF IsFile(f, fp) THEN Res(TRUE, Remove(f, fp))
        ELSE Res(TRUE, f)

\* re.subn of one replacement: the pattern is a token, replaced wherever it occurs.
Subst(data, r) == [i \in DOMAIN data |-> IF data[i] = r.pattern THEN r.replacement ELSE data[i]]

RECURSIVE SubstAll(_, _)
SubstAll(data, rs) == IF rs = <<>> THEN data ELSE SubstAll(Subst(data, Head(rs)), Tail(rs))

\* The token standing for a pattern re.subn rejects (re.error).
BadRegex == "("

\* fs_patch(path, replacements, create_if_missing)
fs_patch(f, path, replacements, create_if_missing) ==
    LET fp == Resolve(REPO_ROOT, path)
        par == Front(fp)
    IN  IF ~Exists(f, fp) /\ ~create_if_missing THEN Res(FALSE, f)
        ELSE IF ~Exists(f, fp) /\ ~MkdirOk(f, par) THEN Res(FALSE, f)
        ELSE LET f1 == IF Exists(f, fp) THEN f ELSE PutFile(MkdirP(f, par), fp, <<>>)
             IN  IF ~IsFile(f1, fp) THEN Res(FALSE, f1)
                 ELSE IF \E i \in DOMAIN replacements : replacements[i].pattern = BadRegex
                      THEN Res(FALSE, f1)
                 ELSE LET current == SubstAll(f1[fp].data, replacements)
                      IN  Res(TRUE, IF current # f1[fp].data THEN PutFile(f1, fp, current) ELSE f1)

\* fs_read(path): ok exactly when the resolved path is a file.
fs_read(f, path) == Res(IsFile(f, Resolve(REPO_ROOT, path)), f)

\* fs_map(root): a missing base lists nothing; iterdir() of a file raises.
fs_map(f, root) == Res(~IsFile(f, Resolve(REPO_ROOT, root)), f)

\* fs_diff(paths): a read-only snapshot summary of whatever the paths resolve to.
fs_diff(f, paths) == Res(TRUE, f)

\* fs_glob(pattern): Path.glob refuses an absolute pattern.
fs_glob(f, pattern) == Res(pattern # <<>> /\ Head(pattern) # "/", f)

ToolNames == {"fs_map", "fs_glob", "fs_read", "fs_write", "fs_mkdir", "fs_delete", "fs_diff", "fs_patch"}

\* A tool call as the text-generation service issues it.  shape is what the
\* decoded arguments are: "object" (a map matching the handler's parameters),
\* "mismatch" (a map the handler's signature rejects) or "nonobject" (a list).
TC(name, shape, path, content, mode, flag) ==
    [name |-> name, shape |-> shape, path |-> path, content |-> content, mode |-> mode, flag |-> flag]

UnknownTool == "Unknown tool"
InvalidArguments == "Invalid arguments"
Raised == "exception propagates"

\* tool.func(**arguments) for arguments that fit the handler's parameters.
RunTool(f, tc) ==
    CASE tc.name = "fs_map"    -> fs_map(f, tc.path)
           [] tc.name = "fs_glob"   -> fs_glob(f, tc.path)
           [] tc.name = "fs_read"   -> fs_read(f, tc.path)
           [] tc.name = "fs_write"  -> fs_write(f, tc.path, tc.content, tc.mode)
           [] tc.name = "fs_mkdir"  -> fs_mkdir(f, tc.path, tc.flag, TRUE)
           [] tc.name = "fs_delete" -> fs_delete(f, tc.path, tc.flag)
           [] tc.name = "fs_diff"   -> fs_diff(f, <<tc.path>>)
           [] tc.name = "fs_patch"  ->
                fs_patch(f, tc.path, <<[pattern |-> tc.mode, replacement |-> tc.content]>>, tc.flag)

\* dispatch_tool_call without its try block: the TypeError of
\* tool.func(**arguments) reaches the caller.
dispatch_tool_call_unguarded(f, tc) ==
    IF tc.name \notin ToolNames THEN [Res(FALSE, f) EXCEPT !.error = UnknownTool]
    ELSE IF tc.shape # "object" THEN [Res(FALSE, f) EXCEPT !.error = Raised]
    ELSE RunTool(f, tc)

\* dispatch_tool_call(name, arguments): arguments that are no mapping or do not
\* fit the handler's parameters raise TypeError inside the try block.
dispatch_tool_call(f, tc) ==
    IF tc.name \notin ToolNames THEN [Res(FALSE, f) EXCEPT !.error = UnknownTool]
    ELSE IF tc.shape # "object" THEN [Res(FALSE, f) EXCEPT !.error = InvalidArguments]
    ELSE RunTool(f, tc)

----------------------------------------------------------------------------
(* SpecTools: the tools called directly, a bounded number of times.         *)

MaxToolCalls == 2

\* The host before any call: the project root with one source file, and a
\* file outside the root.
HostFs ==
    (<<>> :> DirNode) @@ (<<"repo">> :> DirNode) @@ (<<"repo", "backend">> :> DirNode)
    @@ (<<"repo", "backend", "main.py">> :> FileNode(<<"m">>))
    @@ (<<"etc">> :> DirNode) @@ (<<"etc", "passwd">> :> FileNode(<<"p">>))

\* Path arguments: inside the root (new file, directory, file), escaping by
\* "..", escaping by an absolute path.
ToolPaths ==
    { <<"workspace", "app.dart">>, <<"backend">>, <<"backend", "main.py">>,
      <<"..", "etc", "passwd">>, <<"/", "etc", "new">> }

NoCall == [name |-> "none", path |-> <<>>, shape |-> "object", flag |-> TRUE, ok |-> TRUE,
           error |-> "", before |-> HostFs]

ToolsIdle == tcalls = 0 /\ last = NoCall

Call(tc) ==
    /\ tcalls < MaxToolCalls
    /\ LET r == dispatch_tool_call(fs, tc)
       IN  /\ fs' = r.fs
           /\ last' = [name |-> tc.name, path |-> tc.path, shape |-> tc.shape, flag |-> tc.flag,
                       ok |-> r.ok, error |-> r.error, before |-> fs]
    /\ tcalls' = tcalls + 1
    /\ UNCHANGED exceptTools

Shapes == {"object", "mismatch", "nonobject"}

CallMap    == \E p \in ToolPaths, sh \in Shapes : Call(TC("fs_map", sh, p, "x", "w", TRUE))
CallGlob   == \E p \in ToolPaths : Call(TC("fs_glob", "object", p, "x", "w", TRUE))
CallRead   == \E p \in ToolPaths : Call(TC("fs_read", "object", p, "x", "w", TRUE))
CallWrite  == \E p \in ToolPaths, m \in {"w", "a", "x"}, sh \in Shapes :
                 Call(TC("fs_write", sh, p, "x", m, TRUE))
CallMkdir  == \E p \in ToolPaths, e \in BOOLEAN : Call(TC("fs_mkdir", "object", p, "x", "w", e))
CallDelete == \E p \in ToolPaths, r \in BOOLEAN : Call(TC("fs_delete", "object", p, "x", "w", r))
CallDiff   == \E p \in ToolPaths : Call(TC("fs_diff", "object", p, "x", "w", TRUE))
CallPatch  == \E p \in ToolPaths, pat \in {"m", BadRegex}, c \in BOOLEAN :
                 Call(TC("fs_patch", "object", p, "x", pat, c))
CallUnknown == Call(TC("fs_chmod", "object", <<"backend">>, "x", "w", TRUE))

ToolsNext ==
    \/ CallWrite \/ CallDelete \/ CallPatch \/ CallMkdir
    \/ CallMap \/ CallGlob \/ CallRead \/ CallDiff \/ CallUnknown


----------------------------------------------------------------------------
(* Agent loop (agent_service.py).  Time is counted in whole seconds from    *)
(* the moment the deadline is set.                                          *)

loop_steps == 13
max_attempts == 3

WRITEY == {"fs_write", "fs_patch", "fs_mkdir", "fs_delete"}

OMEGA_DIR == <<"workspace", ".omega">>
LAST_RUN_PATH == OMEGA_DIR \o <<"last_run.json">>

Max(a, b) == IF a >= b THEN a ELSE b
Min(a, b) == IF a <= b THEN a ELSE b

\* _sec_remaining(deadline): max(0, deadline - time.monotonic())
_sec_remaining(deadline, t) == Max(0, deadline - t)

\* per_turn_budget = max(1.0, min(turn_timeout, max(1.0, remaining - 1.0)))
PerTurnBudget(turn_timeout, remaining) == Max(1, Min(turn_timeout, Max(1, remaining - 1)))

Entry(name, ok, skipped) == [name |-> name, ok |-> ok, skipped |-> skipped]

Null == "null"

DiffEntries(log) == {i \in DOMAIN log : log[i].name = "fs_diff"}

\* _extract_diff_preview(tool_log): the text of the latest fs_diff entry (its
\* summary, or the JSON dump of a result without one), None without an entry.
_extract_diff_preview(log) ==
    IF DiffEntries(log) = {} THEN Null
    ELSE LET i == CHOOSE k \in DiffEntries(log) : \A m \in DiffEntries(log) : m <= k
         IN  IF log[i].ok THEN "snapshot summary" ELSE "result json"

\* _persist_last_run(payload): best effort; workspace/.omega/last_run.json
\* relative to the working directory, which is the project root.
_persist_last_run(f) ==
    LET dir == Resolve(REPO_ROOT, OMEGA_DIR)
        path == Resolve(REPO_ROOT, LAST_RUN_PATH)
    IN  IF ~MkdirOk(f, dir) THEN f
        ELSE IF ~CanWrite(MkdirP(f, dir), path) THEN MkdirP(f, dir)
        ELSE PutFile(MkdirP(f, dir), path, <<"last_run">>)

\* The summary string of the report.
Summary(touched) ==
    IF touched # {} THEN "DONE: Updated files/folders" ELSE "DONE: Agent run completed."

NoReport == [summary |-> "", diff_preview |-> Null, returned |-> FALSE]

----------------------------------------------------------------------------
(* Inputs of a run and behaviours of the text-generation client.           *)

MaxToolTurns == 1     \* assistant messages with tool calls per run
MaxTransient == 3     \* 429/5xx failures of the client per run

Budgets == {2, 4}         \* wall_clock_budget_sec
TurnTimeouts == {2}       \* per_call_timeout_sec
Latencies == {0, 1, 3}    \* seconds one chat.completions.create call takes
Delays == {0, 1}          \* a backoff sleep (0.45s .. 1.05s) in whole seconds
ToolDurations == {0, 1}   \* seconds one tool execution takes

WriteApp  == TC("fs_write", "object", <<"workspace", "app.dart">>, "x", "w", TRUE)
DeleteBackend == TC("fs_delete", "object", <<"backend">>, "x", "w", TRUE)
ReadMain  == TC("fs_read", "object", <<"backend", "main.py">>, "x", "w", TRUE)
DiffBackend == TC("fs_diff", "object", <<"backend">>, "x", "w", TRUE)
WriteList == TC("fs_write", "nonobject", <<>>, "x", "w", TRUE)
PatchMain == TC("fs_patch", "object", <<"backend", "main.py">>, "x", "m", TRUE)

\* The tool calls one assistant message may carry.
AgentTurns ==
    { <<WriteApp>>, <<WriteApp, DeleteBackend>>, <<ReadMain, DiffBackend>>,
      <<WriteList>>, <<PatchMain, ReadMain>> }

Configs == [budget : Budgets, turn_timeout : TurnTimeouts, validate_only : BOOLEAN]

\* Progress values are integers: Scale stands for 1.0.
Scale == 13 * 10000
Pct(n) == n * (Scale \div 100)

\* _loop_progress_fn(steps): (base, per_step) of the range 0.12 .. 0.92.
LoopBase == Pct(12)
per_step == (Pct(92) - Pct(12)) \div loop_steps

\* stream_progress: _float01(raw.get("progress"), 0.0); None is shown as 0.0.
NoProgress == 0 - 1
Shown(p) == IF p = NoProgress THEN 0 ELSE Max(0, Min(Scale, p))

\* A subscriber receives an event carrying progress p.
Observe(pb, p) ==
    [pb EXCEPT !.last = Shown(p),
               !.ok = @ /\ Shown(p) >= pb.last /\ Shown(p) >= 0 /\ Shown(p) <= Scale]

\* _Pbar.set(value, event): cur only rises; the event carries cur.
PbarSet(pb, value) ==
    LET v == Max(0, Min(Scale, value))
        cur == IF v > pb.cur + Scale \div 10000 THEN v ELSE pb.cur
    IN  Observe([pb EXCEPT !.cur = cur], cur)

\* _Pbar.bump(delta, event)
PbarBump(pb, delta) == PbarSet(pb, pb.cur + delta)

Pbar0 == [cur |-> 0, last |-> 0, ok |-> TRUE]

\* start_job's start event (progress 0.0), then lines 336-345.
PbarReady ==
    PbarSet(PbarSet(PbarSet(PbarSet(PbarSet(Observe(Pbar0, 0), Pct(2)), Pct(5)), Pct(6)),
                    Pct(10)), Pct(12))

Hist0 == [calls |-> 0, nfinal |-> 0, toolTurns |-> 0, transient |-> 0,
          onlyText |-> TRUE, overran |-> FALSE, exit |-> "none"]

AgentIdle ==
    /\ apc = "idle" /\ cfg = [budget |-> 0, turn_timeout |-> 0, validate_only |-> FALSE]
    /\ now = 0 /\ step = 0 /\ attempt = 0 /\ callStart = 0 /\ per_turn_budget = 0
    /\ pending = <<>> /\ tool_log = <<>> /\ touched_paths = {} /\ exc = FALSE
    /\ report = NoReport /\ hist = Hist0 /\ pbar = Pbar0

\* The run after the conversation is seeded and the deadline set (line 362).
AgentInit ==
    /\ apc = "head" /\ cfg \in Configs
    /\ now = 0 /\ step = 1 /\ attempt = 0 /\ callStart = 0 /\ per_turn_budget = 0
    /\ pending = <<>> /\ tool_log = <<>> /\ touched_paths = {} /\ exc = FALSE
    /\ report = NoReport /\ hist = Hist0 /\ pbar = PbarReady

\* A loop of 12 turns.
LoopExhaustedEarly(s) == s >= loop_steps

\* for step in range(1, loop_steps + 1): the range is used up.
LoopExhausted(s) == s > loop_steps

\* Leaving the turn loop for the finally block.
ToFinalize(reason) ==
    /\ apc' = "finalize"
    /\ hist' = [hist EXCEPT !.exit = reason]

\* Head of the for loop: range exhausted, budget exhausted, or start a turn.
StepHead ==
    /\ apc = "head"
    /\ IF LoopExhausted(step)
       THEN /\ ToFinalize("cap")
            /\ UNCHANGED <<attempt, callStart, per_turn_budget, pbar>>
       ELSE IF _sec_remaining(cfg.budget, now) <= 0
       THEN /\ ToFinalize("budget")
            /\ pbar' = PbarSet(pbar, Pct(93))
            /\ UNCHANGED <<attempt, callStart, per_turn_budget>>
       ELSE /\ apc' = "call"
            /\ pbar' = PbarSet(pbar, Min(LoopBase + (step - 1) * per_step + Pct(1), Pct(90)))
            /\ attempt' = 0
            /\ callStart' = now
            /\ per_turn_budget' = PerTurnBudget(cfg.turn_timeout, _sec_remaining(cfg.budget, now))
            /\ hist' = hist
    /\ UNCHANGED <<fs, exceptAgent, cfg, now, step, pending, tool_log, touched_paths, exc, report>>

\* wait_for's timer is due once the turn has run for per_turn_budget seconds.
Late(t) == t - callStart >= per_turn_budget

\* The turn's call has run for longer than its timeout.
Exceeds(t) == t - callStart > per_turn_budget

AgentFrame == UNCHANGED <<fs, exceptAgent, cfg, touched_paths, report>>

\* The turn's locals (attempt, the timer) are dead once its call is over.
TurnOver == attempt' = 0 /\ callStart' = 0 /\ per_turn_budget' = 0
TurnGoesOn == attempt' = attempt + 1 /\ UNCHANGED <<callStart, per_turn_budget>>

\* One chat.completions.create call returns a response and wait_for hands it
\* to the loop.  The call is synchronous: it runs to completion whatever the
\* timeout; when it returns after the timer is due, whether the response or
\* the timeout wins depends on the asyncio version (see TurnTimesOut).
\* kind: "text" (plain text, not the sentinel), "done" (text starting with
\* DONE:), "tools" (an assistant message carrying the tool calls tcs).
TurnResponds(kind, tcs, lat) ==
    /\ apc = "call"
    /\ now' = now + lat
    /\ TurnOver
    /\ hist' = [hist EXCEPT !.calls = @ + 1,
                            !.onlyText = @ /\ kind = "text" /\ lat = 0,
                            !.overran = @ \/ Exceeds(now + lat),
                            !.toolTurns = IF kind = "tools" THEN @ + 1 ELSE @,
                            !.exit = IF kind = "done" THEN "done" ELSE @]
    /\ CASE kind = "tools" -> apc' = "tools" /\ pending' = tcs /\ step' = step /\ pbar' = pbar
         [] kind = "done"  -> /\ apc' = "finalize" /\ pending' = pending /\ step' = step
                              /\ pbar' = PbarSet(pbar, Pct(92))
         [] kind = "text"  -> /\ apc' = "head" /\ pending' = pending /\ step' = step + 1
                              /\ pbar' = PbarBump(pbar, Min((per_step * 3) \div 10, Pct(2)))
    /\ UNCHANGED <<tool_log, exc>>
    /\ AgentFrame

TurnText == \E lat \in Latencies : TurnResponds("text", <<>>, lat)
TurnDone == \E lat \in Latencies : TurnResponds("done", <<>>, lat)
TurnTools ==
    /\ hist.toolTurns < MaxToolTurns
    /\ \E lat \in Latencies, tcs \in AgentTurns : TurnResponds("tools", tcs, lat)

\* A helper that retries a 429/5xx failure however often it has tried.
ShouldRetryAlways(n, retryable) == retryable

\* _chat_with_retries after its n-th create call failed: "if not retryable or
\* attempt >= max_attempts: raise", else sleep and call again.
ShouldRetry(n, retryable) == retryable /\ n < max_attempts

TimeoutEntry == Entry("model_call_timeout", FALSE, FALSE)

\* asyncio.TimeoutError out of wait_for: either a create call came back after
\* the timer was due, or the timer fired during a backoff sleep.
TurnTimesOut ==
    /\ apc = "call"
    /\ \E lat \in Latencies :
         \/ /\ Late(now + lat)
            /\ now' = now + lat
            /\ hist' = [hist EXCEPT !.calls = @ + 1, !.onlyText = FALSE, !.exit = "timeout",
                                    !.overran = TRUE]
         \/ /\ ~Late(now + lat)
            /\ ShouldRetry(attempt + 1, TRUE)
            /\ hist.transient < MaxTransient
            /\ \E d \in Delays : Late(now + lat + d)
            /\ now' = callStart + per_turn_budget
            /\ hist' = [hist EXCEPT !.calls = @ + 1, !.onlyText = FALSE, !.exit = "timeout",
                                    !.overran = TRUE, !.transient = @ + 1]
    /\ TurnOver
    /\ tool_log' = Append(tool_log, TimeoutEntry)
    /\ pbar' = PbarBump(pbar, Pct(1) \div 2)
    /\ apc' = "finalize"
    /\ UNCHANGED <<step, pending, exc>>
    /\ AgentFrame

\* _chat_with_retries: a 429/5xx failure with attempts left sleeps and tries again.
TurnRetries ==
    /\ apc = "call"
    /\ ShouldRetry(attempt + 1, TRUE)
    /\ hist.transient < MaxTransient
    /\ \E lat \in Latencies, d \in Delays :
         /\ ~Late(now + lat)
         /\ now + lat + d - callStart <= per_turn_budget
         /\ now' = now + lat + d
    /\ TurnGoesOn
    /\ hist' = [hist EXCEPT !.calls = @ + 1, !.onlyText = FALSE,
                            !.transient = @ + 1]
    /\ UNCHANGED <<apc, step, pending, tool_log, exc, pbar>>
    /\ AgentFrame

\* _chat_with_retries re-raises: a non-retryable error (transient = FALSE), or a
\* 429/5xx failure on the last attempt.  The error is no TimeoutError, so it
\* leaves the try block through the finally clause.
TurnRaises(transient) ==
    /\ apc = "call"
    /\ ~ShouldRetry(attempt + 1, transient)
    /\ transient => hist.transient < MaxTransient
    /\ \E lat \in Latencies : now' = now + lat
    /\ TurnOver
    /\ hist' = [hist EXCEPT !.calls = @ + 1, !.onlyText = FALSE, !.exit = "error",
                            !.overran = @ \/ Exceeds(now'),
                            !.transient = IF transient THEN @ + 1 ELSE @]
    /\ exc' = TRUE
    /\ apc' = "finalize"
    /\ UNCHANGED <<step, pending, tool_log, pbar>>
    /\ AgentFrame

TurnFatal == TurnRaises(FALSE)
TurnExhausted == TurnRaises(TRUE)

\* validate_only ignored: every call is dispatched.
ToolResultDispatched(f, tc, validate_only) ==
    LET r == dispatch_tool_call(f, tc)
    IN  [ok |-> r.ok, skipped |-> FALSE, fs |-> r.fs]

\* The result the loop records for one tool call: under validate_only a
\* mutating tool is answered without being dispatched.
ToolResult(f, tc, validate_only) ==
    IF validate_only /\ tc.name \in WRITEY
    THEN [ok |-> TRUE, skipped |-> TRUE, fs |-> f]
    ELSE LET r == dispatch_tool_call(f, tc)
         IN  [ok |-> r.ok, skipped |-> FALSE, fs |-> r.fs]

\* The path the loop takes from the decoded arguments (args.get("path") ...).
ArgPath(tc) == IF tc.shape = "object" THEN tc.path ELSE <<>>

\* Body of "for tc in assistant_dict['tool_calls']" for the next call.  Decoded
\* arguments that are no object make args.get(...) raise after the result was
\* logged; nothing in the try block catches it.
ExecTool ==
    /\ apc = "tools"
    /\ pending # <<>>
    /\ LET tc == Head(pending)
           r == ToolResult(fs, tc, cfg.validate_only)
       IN  /\ fs' = r.fs
           /\ tool_log' = Append(tool_log, Entry(tc.name, r.ok, r.skipped))
           /\ \E dur \in ToolDurations : now' = now + dur
           /\ IF tc.shape = "nonobject"
              THEN /\ exc' = TRUE
                   /\ apc' = "finalize"
                   /\ hist' = [hist EXCEPT !.onlyText = FALSE, !.exit = "error"]
                   /\ UNCHANGED <<pending, step, touched_paths, pbar>>
              ELSE /\ touched_paths' =
                        IF ~cfg.validate_only /\ tc.name \in WRITEY /\ ArgPath(tc) # <<>>
                        THEN touched_paths \cup {ArgPath(tc)} ELSE touched_paths
                   /\ pending' = Tail(pending)
                   /\ LET bumped == PbarBump(pbar, Min((per_step * 6) \div 10, Pct(3)))
                      IN  IF Tail(pending) = <<>>
                          THEN /\ apc' = "head" /\ step' = step + 1
                               /\ pbar' = PbarSet(bumped, Min(LoopBase + step * per_step, Pct(92)))
                          ELSE /\ apc' = "tools" /\ step' = step
                               /\ pbar' = bumped
                   /\ hist' = [hist EXCEPT !.onlyText = FALSE]
                   /\ exc' = exc
    /\ UNCHANGED <<exceptAgent, cfg, attempt, callStart, per_turn_budget, report>>

GlobPatterns == << <<"workspace", "**", "*">>, <<"backend", "**", "*.py">> >>

\* The paths of the final fs_diff: the first components of the touched paths,
\* or workspace and backend.
CandidatePaths(touched) ==
    IF touched = {} THEN {<<"workspace">>, <<"backend">>} ELSE {<<Head(p)>> : p \in touched}

\* The inventory without the final diff.
FinalLogNoDiff(f, log, touched) ==
    log \o [i \in DOMAIN GlobPatterns |-> Entry("fs_glob", fs_glob(f, GlobPatterns[i]).ok, FALSE)]

\* The tool log after the finally block's inventory: one fs_glob entry per
\* pattern, then an fs_diff entry if the log holds none.
FinalLog(f, log, touched) ==
    LET globbed == log \o [i \in DOMAIN GlobPatterns |->
                              Entry("fs_glob", fs_glob(f, GlobPatterns[i]).ok, FALSE)]
    IN  IF DiffEntries(globbed) # {} THEN globbed
        ELSE Append(globbed, Entry("fs_diff", fs_diff(f, CandidatePaths(touched)).ok, FALSE))

\* The progress events of the finally block: a bump per glob, a bump for the
\* final diff when one is made, the quality gate's start and missing-module
\* events, the summary and the done event.
FinalProgress(pb, diffMade) ==
    LET globs == PbarBump(PbarBump(pb, Pct(1)), Pct(1))
        diffed == IF diffMade THEN PbarBump(globs, Pct(2)) ELSE globs
        gate == PbarBump(PbarSet(diffed, Pct(94) + Pct(1) \div 2), Pct(1) \div 5)
    IN  PbarSet(PbarSet(gate, Pct(97)), Pct(98))

\* The finally block (lines 463-542): inventory, final diff, summary, persisted
\* last-run record.  The quality gate module is absent, so it adds nothing.
Finalize ==
    /\ apc = "finalize"
    /\ tool_log' = FinalLog(fs, tool_log, touched_paths)
    /\ pbar' = FinalProgress(pbar, DiffEntries(tool_log) = {})
    /\ fs' = _persist_last_run(fs)
    /\ hist' = [hist EXCEPT !.nfinal = @ + 1]
    /\ apc' = "exit"
    /\ UNCHANGED <<exceptAgent, cfg, now, step, attempt, callStart, per_turn_budget, pending,
                   touched_paths, exc, report>>

\* Leaving start_job: a propagating exception is re-raised to the caller,
\* otherwise the report is built and returned (lines 544-571).
AgentReturn ==
    /\ apc = "exit" /\ ~exc
    /\ apc' = "returned"
    /\ report' = [summary |-> Summary(touched_paths),
                  diff_preview |-> _extract_diff_preview(tool_log),
                  returned |-> TRUE]
    /\ pbar' = Observe(pbar, Scale)
    /\ UNCHANGED <<fs, exceptAgent, cfg, now, step, attempt, callStart, per_turn_budget, pending,
                   tool_log, touched_paths, exc, hist>>

AgentRaise ==
    /\ apc = "exit" /\ exc
    /\ apc' = "raised"
    /\ pbar' = Observe(pbar, NoProgress)
    /\ UNCHANGED <<fs, exceptAgent, cfg, now, step, attempt, callStart, per_turn_budget, pending,
                   tool_log, touched_paths, exc, report, hist>>

AgentNext ==
    \/ StepHead \/ TurnText \/ TurnDone \/ TurnTools \/ TurnTimesOut \/ TurnRetries
    \/ TurnFatal \/ TurnExhausted \/ ExecTool \/ Finalize \/ AgentReturn \/ AgentRaise

----------------------------------------------------------------------------
(* Idle-aware test runner (compile_loop.py, _run_test_machine).  The child   *)
(* process writes lines to two pipes, may close them, and may exit; the     *)
(* runner reads them with blocking readline calls.                          *)

WatchdogIdle == 1     \* watchdog_idle_sec
HardTimeout == 3      \* hard_timeout
MaxClock == 4         \* the clock stops here
MaxOutLines == 1      \* lines the process writes to stdout
MaxErrLines == 1      \* lines the process writes to stderr
MaxRuns == 2          \* runs of the runner

WatchdogMark == "[watchdog] test runner idle; killed"
TimeoutMark == "[timeout] test run exceeded; killed"
ExceptionMark == "[exception]"
BadBytes == "bytes that are no UTF-8"

\* What the process may write to stderr: any text, the runner's own words included.
ErrLines == {"e", WatchdogMark, BadBytes}
ExitCodes == {0, 1, 124}

NoResult == [rc |-> -1, seconds |-> 0, stdout |-> <<>>, stderr |-> <<>>, outcome |-> "none"]

Rn0 == [pc |-> "read_out", t0 |-> 0, last_activity |-> 0, out_chunks |-> <<>>,
        err_chunks |-> <<>>, stdout_line |-> "", stderr_line |-> ""]
Proc0 == [alive |-> TRUE, rc |-> 0, out |-> <<>>, err |-> <<>>, outOpen |-> TRUE,
          errOpen |-> TRUE, nout |-> 0, nerr |-> 0, lastOutput |-> 0, killed |-> FALSE]

RunnerIdle ==
    /\ rn = [Rn0 EXCEPT !.pc = "idle"] /\ proc = Proc0 /\ clock = 0
    /\ rresult = NoResult /\ prev = [result |-> NoResult, runs |-> 0]

\* Right after Popen: the process runs, nothing was read.
RunnerInit ==
    /\ rn = Rn0 /\ proc = Proc0 /\ clock = 0
    /\ rresult = NoResult /\ prev = [result |-> NoResult, runs |-> 1]

ProcWriteOut ==
    /\ proc.alive /\ proc.outOpen /\ proc.nout < MaxOutLines
    /\ proc' = [proc EXCEPT !.out = Append(@, "o"), !.nout = @ + 1, !.lastOutput = clock]
    /\ UNCHANGED <<rn, clock, rresult, prev>>
    /\ UNCHANGED exceptRunner

ProcWriteErr ==
    /\ proc.alive /\ proc.errOpen /\ proc.nerr < MaxErrLines
    /\ \E l \in ErrLines :
         proc' = [proc EXCEPT !.err = Append(@, l), !.nerr = @ + 1, !.lastOutput = clock]
    /\ UNCHANGED <<rn, clock, rresult, prev>>
    /\ UNCHANGED exceptRunner

\* The process closes its stdout and stderr and keeps running.
ProcCloseStreams ==
    /\ proc.alive /\ proc.outOpen /\ proc.errOpen
    /\ proc' = [proc EXCEPT !.outOpen = FALSE, !.errOpen = FALSE]
    /\ UNCHANGED <<rn, clock, rresult, prev>>
    /\ UNCHANGED exceptRunner

ProcExit ==
    /\ proc.alive
    /\ \E rc \in ExitCodes :
         proc' = [proc EXCEPT !.alive = FALSE, !.rc = rc, !.outOpen = FALSE, !.errOpen = FALSE]
    /\ UNCHANGED <<rn, clock, rresult, prev>>
    /\ UNCHANGED exceptRunner

\* readline() on a pipe returns when a line is there or the pipe is at EOF;
\* until then it blocks.
Readable(pipe, open) == pipe # <<>> \/ ~open
Line(pipe) == IF pipe # <<>> THEN Head(pipe) ELSE ""
Rest(pipe) == IF pipe # <<>> THEN Tail(pipe) ELSE <<>>

Blocked ==
    \/ rn.pc = "read_out" /\ ~Readable(proc.out, proc.outOpen)
    \/ rn.pc = "read_err" /\ ~Readable(proc.err, proc.errOpen)

\* The CmdResult of the branch that returns.
CmdResult(rc, out, err, outcome) ==
    [rc |-> rc, seconds |-> clock - rn.t0, stdout |-> out, stderr |-> err, outcome |-> outcome]

\* except Exception: kill, rc=1, "[exception]" appended to stderr.
RunnerException ==
    /\ rresult' = CmdResult(1, rn.out_chunks, Append(rn.err_chunks, ExceptionMark), "exception")
    /\ rn' = [rn EXCEPT !.pc = "done"]
    /\ proc' = [proc EXCEPT !.alive = FALSE, !.killed = @ \/ proc.alive,
                            !.outOpen = FALSE, !.errOpen = FALSE]

\* stdout_line = proc.stdout.readline()
RunnerReadOut ==
    /\ rn.pc = "read_out"
    /\ Readable(proc.out, proc.outOpen)
    /\ rn' = [rn EXCEPT !.pc = "read_err", !.stdout_line = Line(proc.out)]
    /\ proc' = [proc EXCEPT !.out = Rest(@)]
    /\ UNCHANGED <<clock, rresult, prev>>
    /\ UNCHANGED exceptRunner

\* stderr_line = proc.stderr.readline(); undecodable bytes raise.
RunnerReadErr ==
    /\ rn.pc = "read_err"
    /\ Readable(proc.err, proc.errOpen)
    /\ IF Line(proc.err) = BadBytes
       THEN RunnerException
       ELSE /\ rn' = [rn EXCEPT !.pc = "check", !.stderr_line = Line(proc.err)]
            /\ proc' = [proc EXCEPT !.err = Rest(@)]
            /\ rresult' = rresult
    /\ UNCHANGED <<clock, prev>>
    /\ UNCHANGED exceptRunner

Chunks(chunks, line) == IF line # "" THEN Append(chunks, line) ELSE chunks

\* Lines 99-139: record the lines read, then poll, watchdog, hard timeout.
RunnerCheck ==
    /\ rn.pc = "check"
    /\ LET outc == Chunks(rn.out_chunks, rn.stdout_line)
           errc == Chunks(rn.err_chunks, rn.stderr_line)
           la == IF rn.stdout_line # "" \/ rn.stderr_line # "" THEN clock ELSE rn.last_activity
           r1 == [rn EXCEPT !.out_chunks = outc, !.err_chunks = errc, !.last_activity = la,
                            !.stdout_line = "", !.stderr_line = ""]
           kill == [proc EXCEPT !.alive = FALSE, !.killed = TRUE, !.outOpen = FALSE, !.errOpen = FALSE]
       IN  IF ~proc.alive
           THEN IF BadBytes \in {proc.err[i] : i \in DOMAIN proc.err}
                THEN RunnerException
                ELSE /\ rresult' = CmdResult(proc.rc, outc \o proc.out, errc \o proc.err, "exit")
                     /\ rn' = [r1 EXCEPT !.pc = "done", !.out_chunks = outc \o proc.out,
                                         !.err_chunks = errc \o proc.err]
                     /\ proc' = [proc EXCEPT !.out = <<>>, !.err = <<>>]
           ELSE IF clock - la > WatchdogIdle
           THEN /\ rresult' = CmdResult(124, outc, Append(errc, WatchdogMark), "watchdog")
                /\ rn' = [r1 EXCEPT !.pc = "done"]
                /\ proc' = kill
           ELSE IF clock - rn.t0 > HardTimeout
           THEN /\ rresult' = CmdResult(124, outc, Append(errc, TimeoutMark), "timeout")
                /\ rn' = [r1 EXCEPT !.pc = "done"]
                /\ proc' = kill
           ELSE /\ rn' = [r1 EXCEPT !.pc = "sleep"]
                /\ UNCHANGED <<proc, rresult>>
    /\ UNCHANGED <<clock, prev>>
    /\ UNCHANGED exceptRunner

\* time.sleep(0.05) ends within the current second.
RunnerWake ==
    /\ rn.pc = "sleep"
    /\ rn' = [rn EXCEPT !.pc = "read_out"]
    /\ UNCHANGED <<proc, clock, rresult, prev>>
    /\ UNCHANGED exceptRunner

\* A second passes: only while the runner sleeps or is blocked in readline.
Tick ==
    /\ clock < MaxClock
    /\ rn.pc = "sleep" \/ Blocked
    /\ clock' = clock + 1
    /\ rn' = IF rn.pc = "sleep" THEN [rn EXCEPT !.pc = "read_out"] ELSE rn
    /\ UNCHANGED <<proc, rresult, prev>>
    /\ UNCHANGED exceptRunner

\* The caller keeps the result and runs the next test command.
RunAgain ==
    /\ rn.pc = "done"
    /\ prev.runs < MaxRuns
    /\ prev' = [result |-> rresult, runs |-> prev.runs + 1]
    /\ rn' = Rn0 /\ proc' = Proc0 /\ clock' = 0 /\ rresult' = NoResult
    /\ UNCHANGED exceptRunner

RunnerNext ==
    \/ ProcWriteOut \/ ProcWriteErr \/ ProcCloseStreams \/ ProcExit
    \/ RunnerReadOut \/ RunnerReadErr \/ RunnerCheck \/ RunnerWake \/ Tick \/ RunAgain

----------------------------------------------------------------------------
(* Heuristic repairer (compile_loop.py, _apply_fixes).  The diagnostic text *)
(* is the sequence of its pattern matches: missing import URIs, undefined   *)
(* classes, undefined methods.  A URI is its scheme and its "/"-separated   *)
(* segments, a leading "/" segment standing for an absolute path.           *)

MaxDiag == 2          \* matches in a diagnostic text

APP_DIR == <<"app">>
lib_dir == Append(APP_DIR, "lib")
AUTOFIX == lib_dir \o <<"shared", "autofix">>
AppRouter == lib_dir \o <<"core", "routing", "app_router.dart">>

\* Path(x).name: the last segment, empty for "/".
PathName(segs) ==
    IF segs = <<>> \/ segs[Len(segs)] = "/" THEN "" ELSE segs[Len(segs)]

\* _filename_to_class: stem split at "_", parts capitalised and joined.
_filename_to_class(fname) ==
    CASE fname = "x.dart" -> "X"
      [] fname = "home_view.dart" -> "HomeView"
      [] fname = "app_router.dart" -> "AppRouter"
      [] fname = "settings_page.dart" -> "SettingsPage"
      [] OTHER -> fname

\* Number of characters of a class name.
NameLen(cls) ==
    CASE cls = "X" -> 1
      [] cls = "HomeView" -> 8
      [] cls = "AppRouter" -> 9
      [] cls = "SettingsPage" -> 12
      [] cls = "Foo" -> 3
      [] cls = ".." -> 2
      [] OTHER -> 4

\* name.endswith("_view.dart")
IsView(fname) == fname = "home_view.dart"

\* cls.lower() + ".dart"
LowerDart(cls) == IF cls = "Foo" THEN "foo.dart" ELSE cls

_widget_stub(name) == <<"widget", name>>
_class_stub(name) == <<"class", name>>
SmokeTest == <<"smoke">>

\* st_size of a file with the given content, in bytes.
Size(data) ==
    IF data = <<>> THEN 0
    ELSE CASE data[1] = "class" -> 21 + 2 * NameLen(data[2])
           [] data[1] = "widget" -> 282 + 4 * NameLen(data[2])
           [] data[1] = "smoke" -> 115
           [] data[1] = "tiny" -> 5
           [] OTHER -> 100

\* _safe_under(base, desired, fallback_rel)
_safe_under(base, desired, fallback_rel) ==
    LET desired_res == Resolve(<<>>, desired)
    IN  IF IsWithin(base, desired_res) THEN desired_res ELSE Resolve(base, fallback_rel)

Fallback(name) == <<"lib", "shared", "autofix", name>>

NonePath == <<"None", "None">>

IsSdk(uri) == uri.scheme = "dart" \/ (uri.scheme = "package" /\ Head(uri.segs) = "flutter")

\* The path the URI names before any clamping.
Desired(origin, uri) ==
    IF uri.scheme = "package" THEN Resolve(lib_dir, Tail(uri.segs))
    ELSE Resolve(IF IsPrefix(lib_dir, origin) THEN origin ELSE lib_dir, uri.segs)

\* _guess_path_from_uri(app_dir, origin_within_lib, uri)
_guess_path_from_uri(app_dir, origin, uri) ==
    IF IsSdk(uri) THEN NonePath
    ELSE IF uri.scheme = "package"
    THEN IF Len(uri.segs) < 2 THEN NonePath
         ELSE _safe_under(app_dir, lib_dir \o Tail(uri.segs), Fallback(PathName(Tail(uri.segs))))
    ELSE _safe_under(app_dir, Desired(origin, uri), Fallback(PathName(uri.segs)))

\* _make_file(path, content).  dirSmall: st_size of a directory is below 40,
\* which depends on the platform's filesystem.
_make_file(f, path, content, dirSmall) ==
    IF ~MkdirOk(f, Front(path)) THEN [raised |-> TRUE, fs |-> f, wrote |-> FALSE]
    ELSE LET f1 == MkdirP(f, Front(path))
         IN  IF ~Exists(f1, path)
             THEN [raised |-> FALSE, fs |-> PutFile(f1, path, content), wrote |-> TRUE]
             ELSE IF IsDir(f1, path)
             THEN [raised |-> dirSmall, fs |-> f1, wrote |-> FALSE]
             ELSE IF Size(f1[path].data) < 40
             THEN [raised |-> FALSE, fs |-> PutFile(f1, path, content), wrote |-> TRUE]
             ELSE [raised |-> FALSE, fs |-> f1, wrote |-> FALSE]

Uri(scheme, segs) == [kind |-> "uri", scheme |-> scheme, segs |-> segs]

Uris ==
    { Uri("rel", <<"..", "x.dart">>),
      Uri("rel", <<"core", "routing", "app_router.dart">>),
      Uri("rel", <<"home_view.dart">>),
      Uri("rel", <<"..", "..", "..">>),
      Uri("rel", <<"..", "..", "x.dart">>),
      Uri("rel", <<"/", "etc", "x.dart">>),
      Uri("package", <<"my_app", "settings_page.dart">>),
      Uri("package", <<"my_app", "/", "etc", "x.dart">>),
      Uri("package", <<"my_app">>),
      Uri("dart", <<"io">>) }

Matches == Uris \cup {[kind |-> "class", cls |-> "Foo"], [kind |-> "method"]}

RECURSIVE SeqsUpTo(_, _)
SeqsUpTo(S, n) ==
    IF n = 0 THEN {<<>>}
    ELSE LET shorter == SeqsUpTo(S, n - 1)
         IN  shorter \cup {Append(q, x) : q \in shorter, x \in S}

Diagnostics == SeqsUpTo(Matches, MaxDiag)

OfKind(diag, k) == SelectSeq(diag, LAMBDA m : m.kind = k)

\* Project trees the repairer starts from.
BareTree ==
    (<<>> :> DirNode) @@ (<<"etc">> :> DirNode) @@ (APP_DIR :> DirNode)
LibTree == BareTree @@ (lib_dir :> DirNode)
RoutedTree ==
    LibTree @@ (Append(lib_dir, "core") :> DirNode)
            @@ (lib_dir \o <<"core", "routing">> :> DirNode)
            @@ (AppRouter :> FileNode(<<"real">>))
            @@ (Append(lib_dir, "home_view.dart") :> FileNode(<<"tiny">>))
Trees == {BareTree, LibTree, RoutedTree}

NoMake == [desired |-> <<>>, target |-> <<>>, wrote |-> FALSE]

Fx0 == [pc |-> "idle", diag |-> <<>>, uris |-> <<>>, classes |-> <<>>, origin |-> <<>>,
        pass |-> 0, snap |-> <<>>, last |-> NoMake]

FixIdle == fx = Fx0

\* _apply_fixes is called on one of the trees with one of the diagnostic texts.
FixInit ==
    /\ fs \in Trees
    /\ \E d \in Diagnostics : fx = [Fx0 EXCEPT !.pc = "start", !.diag = d, !.pass = 1]

\* Lines 265-272: origin is the first probable origin that exists.
FixBegin ==
    /\ fx.pc = "start"
    /\ fx' = [fx EXCEPT !.pc = "loop",
                        !.uris = OfKind(fx.diag, "uri"),
                        !.classes = OfKind(fx.diag, "class"),
                        !.origin = IF Exists(fs, AppRouter) THEN AppRouter ELSE lib_dir,
                        !.last = NoMake]
    /\ UNCHANGED fs
    /\ UNCHANGED exceptFix

\* The outcome of one _make_file call inside _apply_fixes.
Made(r, desired, target) ==
    /\ fs' = r.fs
    /\ fx' = [fx EXCEPT !.pc = IF r.raised THEN "raised" ELSE "loop",
                        !.uris = IF @ # <<>> THEN Tail(@) ELSE @,
                        !.classes = IF fx.uris = <<>> THEN Tail(@) ELSE @,
                        !.last = [desired |-> desired, target |-> target, wrote |-> r.wrote]]

\* Lines 275-291: one missing-URI match.
FixUri ==
    /\ fx.pc = "loop" /\ fx.uris # <<>>
    /\ LET uri == Head(fx.uris)
           proto == _guess_path_from_uri(APP_DIR, fx.origin, uri)
       IN  IF proto = NonePath
           THEN /\ fx' = [fx EXCEPT !.uris = Tail(@), !.last = NoMake]
                /\ UNCHANGED fs
           ELSE LET name == PathName(IF uri.scheme = "package" THEN <<"package:">> \o uri.segs
                                     ELSE uri.segs)
                    cls == _filename_to_class(name)
                    target == _safe_under(APP_DIR, proto, Fallback(name))
                    content == IF IsView(PathName(target)) THEN _widget_stub(cls)
                               ELSE _class_stub(cls)
                IN  \E dirSmall \in BOOLEAN :
                        Made(_make_file(fs, target, content, dirSmall),
                             Desired(fx.origin, uri), target)
    /\ UNCHANGED exceptFix

\* Lines 294-300: one undefined-class match.
FixClass ==
    /\ fx.pc = "loop" /\ fx.uris = <<>> /\ fx.classes # <<>>
    /\ LET cls == Head(fx.classes).cls
           stub_path == _safe_under(APP_DIR, Append(AUTOFIX, LowerDart(cls)),
                                    Fallback(LowerDart(cls)))
       IN  \E dirSmall \in BOOLEAN :
               Made(_make_file(fs, stub_path, _class_stub(cls), dirSmall), stub_path, stub_path)
    /\ UNCHANGED exceptFix

\* Lines 303-325: the note about undefined methods changes no file; the
\* smoke test is written when test/smoke_test.dart does not exist.
FixSmoke ==
    /\ fx.pc = "loop" /\ fx.uris = <<>> /\ fx.classes = <<>>
    /\ LET tests_dir == Append(APP_DIR, "test")
           smoke == Append(tests_dir, "smoke_test.dart")
           f1 == IF ~Exists(fs, tests_dir) THEN MkdirP(fs, tests_dir) ELSE fs
       IN  IF Exists(f1, smoke)
           THEN /\ fs' = f1
                /\ fx' = [fx EXCEPT !.pc = "done", !.last = NoMake]
           ELSE IF CanWrite(f1, smoke)
           THEN /\ fs' = PutFile(f1, smoke, SmokeTest)
                /\ fx' = [fx EXCEPT !.pc = "done",
                                    !.last = [desired |-> smoke, target |-> smoke, wrote |-> TRUE]]
           ELSE /\ fs' = f1
                /\ fx' = [fx EXCEPT !.pc = "raised", !.last = NoMake]
    /\ UNCHANGED exceptFix

\* The compile loop's next round: the same diagnostic text is applied again.
Reapply ==
    /\ fx.pc = "done" /\ fx.pass = 1
    /\ fx' = [fx EXCEPT !.pc = "start", !.pass = 2, !.snap = fs, !.last = NoMake]
    /\ UNCHANGED fs
    /\ UNCHANGED exceptFix

FixNext == FixBegin \/ FixUri \/ FixClass \/ FixSmoke \/ Reapply

----------------------------------------------------------------------------
(* Progress bus (progress.py, ProgressBus).  Coroutines run on one event    *)
(* loop and publish holds no await between taking the lock and releasing    *)
(* it, so a publish call is one step.                                       *)

max_queue_size == 2   \* maxsize of a subscriber's queue
MaxPublish == 4       \* events published
Publishers == {"p1", "p2"}
Subscribers == {"s1", "s2"}

Bus0 == [subs |-> {}, q |-> [s \in Subscribers |-> <<>>], recv |-> [s \in Subscribers |-> <<>>],
         joined |-> [s \in Subscribers |-> 0], left |-> {}, dropped |-> {}, published |-> <<>>]

BusIdle == bus = Bus0

\* A delivery that gives the event up when the queue is full.
DeliverOrSkip(queue, payload) ==
    IF Len(queue) < max_queue_size THEN Append(queue, payload) ELSE queue

\* put_nowait(payload) on a queue; on QueueFull, get_nowait() drops the
\* oldest item and put_nowait is tried again.
Deliver(queue, payload) ==
    IF Len(queue) < max_queue_size THEN Append(queue, payload)
    ELSE Append(Tail(queue), payload)

\* A fan-out that serves one subscriber only.
FanoutOne(subs) == IF subs = {} THEN {} ELSE {CHOOSE s \in subs : TRUE}

\* list(self._subs): the queues a publish call puts the event on.
Fanout(subs) == subs

\* subscribe(): the queue is created and registered (lines 92-94).
Subscribe ==
    /\ \E s \in Subscribers \ (bus.subs \cup bus.left) :
         bus' = [bus EXCEPT !.subs = @ \cup {s}, !.joined[s] = Len(bus.published)]
    /\ UNCHANGED exceptBus

\* The subscriber's generator is closed: the queue is discarded (lines 99-101).
Unsubscribe ==
    /\ \E s \in bus.subs :
         bus' = [bus EXCEPT !.subs = @ \ {s}, !.left = @ \cup {s}]
    /\ UNCHANGED exceptBus

\* publish(event), by any publisher.
Publish ==
    /\ Len(bus.published) < MaxPublish
    /\ \E p \in Publishers :
         LET payload == <<p, Len(bus.published) + 1>>
         IN  bus' = [bus EXCEPT
                 !.published = Append(@, payload),
                 !.q = [s \in Subscribers |->
                          IF s \in Fanout(bus.subs) THEN Deliver(bus.q[s], payload) ELSE bus.q[s]],
                 !.dropped = @ \cup {s \in bus.subs : Len(bus.q[s]) >= max_queue_size}]
    /\ UNCHANGED exceptBus

\* item = await q.get(); yield item
Consume ==
    /\ \E s \in bus.subs :
         /\ bus.q[s] # <<>>
         /\ bus' = [bus EXCEPT !.q[s] = Tail(@), !.recv[s] = Append(@, Head(bus.q[s]))]
    /\ UNCHANGED exceptBus

BusNext == Subscribe \/ Unsubscribe \/ Publish \/ Consume

----------------------------------------------------------------------------
(* Repair loop (compile_loop.py, run_compile_loop).  The external commands *)
(* are the environment: each run of one ends in one of its outcomes.        *)

max_rounds == 3

\* How a command run by _run ends: its exit code is 0, its exit code is not
\* 0, subprocess.run raises TimeoutExpired, or the binary is not found.
RunOutcomes == {"rc0", "rc1", "timeout", "notfound"}

\* How flutter analyze ends; a failing analyze names a missing import
\* target (fail_uri), an import target that is a file of 40 bytes or more
\* (fail_kept), an undefined method (fail_method), or something no fixer
\* matches (fail_other; an annotate_overrides lint is one of these, the
\* result of dart fix being logged and dropped).
AnalyzeOutcomes ==
    {"pass", "fail_uri", "fail_kept", "fail_method", "fail_other", "timeout", "notfound"}

\* How the analyze after a repair ends; its output is not read again.
ReanalyzeOutcomes == {"pass", "fail", "timeout", "notfound"}

\* How _run_test_machine ends: a CmdResult with one of the runner's exit
\* codes, or Popen does not find the binary.
TestOutcomes == {"rc0", "rc1", "rc124", "notfound"}

None == [present |-> FALSE, rc |-> 0]
Rc(n) == [present |-> TRUE, rc |-> n]

Cl0 == [pc |-> "idle", run_tests |-> FALSE, run_pub_get_first |-> FALSE, need |-> FALSE,
        smoke |-> FALSE, r |-> 0, rounds |-> <<>>, full_suite_allowed |-> FALSE,
        analyze |-> 0, diag |-> "", fixes |-> {}, pub_get_run |-> FALSE,
        ok |-> FALSE, message |-> "", exc |-> "", hist |-> <<>>,
        max_rounds |-> 0, analyzed |-> 0, tested |-> <<>>]

LoopIdle == cl = Cl0

\* The call: run_tests and run_pub_get_first as the caller passes them, a
\* platform directory that is there or not, a smoke test that is there or not.
LoopInit ==
    \E t, g, n, k \in BOOLEAN, m \in 0..max_rounds :
        cl = [Cl0 EXCEPT !.pc = "scaffold", !.run_tests = t, !.run_pub_get_first = g,
                         !.need = n, !.smoke = k, !.max_rounds = m]

CompileRound(r, pub_get_run, analyze, tests, fixes) ==
    [round |-> r, pub_get_run |-> pub_get_run, analyze |-> analyze, tests |-> tests,
     fixes |-> fixes]

\* return CompileReport(ok=..., rounds=..., message=...)
Return(c, ok, rounds, message) ==
    [c EXCEPT !.pc = "returned", !.ok = ok, !.rounds = rounds, !.message = message]

\* An exception no handler of run_compile_loop catches.
Raise(c, e) == [c EXCEPT !.pc = "raised", !.exc = e]

\* The fixes _apply_fixes reports for an analyzer output: "created" or
\* "filled" for a missing target (uri), "kept" for a target left as it is,
\* the note on undefined methods, and the smoke test it created.
Fixes(diag, smoke) ==
    (CASE diag = "fail_uri" -> {"uri"}
       [] diag = "fail_kept" -> {"kept"}
       [] diag = "fail_method" -> {"note"}
       [] OTHER -> {})
    \cup (IF smoke THEN {} ELSE {"smoke"})

\* The reported fixes that changed the tree.
Changing == {"uri", "smoke"}

\* A loop that runs one round more than asked for.
MoreRoundsInclusive(r, m) == r <= m

\* for r in range(1, max_rounds + 1): is there a round after round r?
MoreRounds(r, m) == r < m

\* A loop that runs the smoke test in round 1 only.
SmokeOnlyFirstRound(r, allowed) == r = 1

\* first_round or not full_suite_allowed
SmokeOnly(r, allowed) == r = 1 \/ ~allowed

\* The loop is entered: round 1 if there is one, the report otherwise.
Enter(c) ==
    IF MoreRounds(0, c.max_rounds) THEN [c EXCEPT !.pc = "analyze", !.r = 1]
    ELSE Return(c, FALSE, <<>>, "compile loop exhausted without success")

\* A loop that leaves the analysis after a repair to the next round.
ReanalyzesNever(fixes) == FALSE

\* pub_get_run = bool(fixes); if pub_get_run: pub get, then analyze again.
Reanalyzes(fixes) == fixes # {}

\* A round that passes on its analysis alone.
RoundOkAnalyzeOnly(analyze, tests) == analyze = 0

\* analyze_ok and tests_ok
RoundOk(analyze, tests) ==
    /\ analyze = 0
    /\ IF tests.present THEN tests.rc = 0 ELSE TRUE

\* _ensure_platform_scaffold: flutter create when a platform directory is
\* missing; only FileNotFoundError is handled.
LoopScaffold ==
    /\ cl.pc = "scaffold"
    /\ IF cl.need
       THEN \E o \in RunOutcomes :
              cl' = IF o = "timeout" THEN Raise(cl, "TimeoutExpired")
                    ELSE [cl EXCEPT !.pc = "pub_get"]
       ELSE cl' = [cl EXCEPT !.pc = "pub_get"]
    /\ UNCHANGED exceptLoop

\* if run_pub_get_first: _ensure_pub_get, its exit code ignored.
LoopPubGet ==
    /\ cl.pc = "pub_get"
    /\ IF cl.run_pub_get_first
       THEN \E o \in RunOutcomes :
              cl' = CASE o = "notfound" -> Return(cl, FALSE, <<>>, "flutter binary not found")
                      [] o = "timeout" -> Raise(cl, "TimeoutExpired")
                      [] OTHER -> Enter(cl)
       ELSE cl' = Enter(cl)
    /\ UNCHANGED exceptLoop

\* The head of round r: purge, then flutter analyze.
LoopAnalyze ==
    /\ cl.pc = "analyze"
    /\ \E o \in AnalyzeOutcomes :
         cl' = CASE o = "notfound" ->
                      Return(cl, FALSE, cl.rounds, "flutter binary not found during analyze")
                 [] o = "timeout" -> Raise(cl, "TimeoutExpired")
                 [] o = "pass" ->
                      [cl EXCEPT !.pc = "tests", !.analyze = 0, !.diag = "", !.fixes = {},
                                 !.pub_get_run = FALSE, !.hist = Append(@, "pass"),
                                 !.analyzed = cl.r]
                 [] OTHER ->
                      [cl EXCEPT !.pc = "fix", !.analyze = 1, !.diag = o, !.fixes = {},
                                 !.pub_get_run = FALSE, !.hist = Append(@, o),
                                 !.analyzed = cl.r]
    /\ UNCHANGED exceptLoop

\* analyze_res.rc != 0: _apply_fixes, dart fix on an annotate_overrides lint
\* (whatever it does is logged and dropped), and the stop when nothing was fixed.
LoopFix ==
    /\ cl.pc = "fix"
    /\ \E oserror \in BOOLEAN :
         LET fixes == Fixes(cl.diag, cl.smoke)
         IN  cl' = IF oserror
                   THEN Return(cl, FALSE, cl.rounds, "autofix failed due to filesystem error")
                   ELSE IF Reanalyzes(fixes)
                   THEN [cl EXCEPT !.pc = "reanalyze", !.fixes = fixes, !.smoke = TRUE,
                                   !.pub_get_run = TRUE, !.hist = Append(@, "repair")]
                   ELSE IF fixes = {}
                   THEN Return([cl EXCEPT !.hist = Append(@, "repair")], FALSE,
                               Append(cl.rounds, CompileRound(cl.r, FALSE, cl.analyze, None, fixes)),
                               "analyze failed; no safe fixes available")
                   ELSE [cl EXCEPT !.pc = "tests", !.fixes = fixes, !.smoke = TRUE,
                                   !.hist = Append(@, "repair")]
    /\ UNCHANGED exceptLoop

\* if pub_get_run: _ensure_pub_get, then flutter analyze again; the second
\* analyze stands outside the try.
LoopReanalyze ==
    /\ cl.pc = "reanalyze"
    /\ \E p \in RunOutcomes, o \in ReanalyzeOutcomes :
         cl' = CASE p = "notfound" ->
                      Return(cl, FALSE, cl.rounds, "flutter binary not found during pub get")
                 [] p = "timeout" -> Raise(cl, "TimeoutExpired")
                 [] o = "notfound" -> Raise(cl, "FileNotFoundError")
                 [] o = "timeout" -> Raise(cl, "TimeoutExpired")
                 [] OTHER ->
                      [cl EXCEPT !.pc = "tests", !.analyze = IF o = "pass" THEN 0 ELSE 1,
                                 !.hist = Append(@, o)]
    /\ UNCHANGED exceptLoop

\* The round after its analysis: the tests when asked for (the smoke test in
\* round 1 and until it has passed once, the whole suite afterwards), the
\* round's record, and the decision to stop or go on.
LoopTests ==
    /\ cl.pc = "tests"
    /\ \E o \in TestOutcomes :
         LET smokeOnly == SmokeOnly(cl.r, cl.full_suite_allowed)
             rc == CASE o = "rc0" -> 0 [] o = "rc1" -> 1 [] OTHER -> 124
             test_res == IF cl.run_tests THEN Rc(rc) ELSE None
             rounds == Append(cl.rounds,
                              CompileRound(cl.r, cl.pub_get_run, cl.analyze, test_res, cl.fixes))
             c == [cl EXCEPT
                     !.smoke = @ \/ (cl.run_tests /\ smokeOnly),
                     !.full_suite_allowed = @ \/ (cl.run_tests /\ smokeOnly /\ rc = 0),
                     !.hist = IF cl.run_tests
                              THEN Append(@, (IF smokeOnly THEN "smoke_" ELSE "suite_")
                                             \o (IF rc = 0 THEN "pass" ELSE "fail"))
                              ELSE @,
                     !.tested = IF cl.run_tests
                                THEN Append(@, [round |-> cl.r, rc |-> rc,
                                                kind |-> IF smokeOnly THEN "smoke" ELSE "suite"])
                                ELSE @]
         IN  /\ cl.run_tests \/ o = "rc0"
             /\ cl' = IF cl.run_tests /\ o = "notfound"
                      THEN Return([cl EXCEPT !.smoke = @ \/ smokeOnly], FALSE, cl.rounds,
                                  "flutter binary not found during test run")
                      ELSE IF RoundOk(cl.analyze, test_res)
                      THEN Return(c, TRUE, rounds, "analyze & tests passed")
                      ELSE IF MoreRounds(cl.r, cl.max_rounds)
                      THEN [c EXCEPT !.pc = "analyze", !.r = @ + 1, !.rounds = rounds]
                      ELSE Return(c, FALSE, rounds, "compile loop exhausted without success")
    /\ UNCHANGED exceptLoop

LoopNext ==
    LoopScaffold \/ LoopPubGet \/ LoopAnalyze \/ LoopFix \/ LoopReanalyze \/ LoopTests

----------------------------------------------------------------------------
(* Agent runs of one process (agent_service.py, the turn loop of            *)
(* adapt_repository_with_agent and its finally block).  The runs are tasks  *)
(* of one event loop: a run gives way at its awaits (the create call, the   *)
(* progress events between two tool calls) and nowhere else.  Time and      *)
(* progress are left to the single-run model above.                         *)

RunIds == {"a", "b"}
MaxTurns == 2         \* turns of one run

\* One message of the conversation log.
Message(role, tool_calls, tool_call_id) ==
    [role |-> role, tool_calls |-> tool_calls, tool_call_id |-> tool_call_id]

\* The seed of the conversation: system prompt, the spec, the kickoff.
Seed == <<Message("system", <<>>, <<>>), Message("user", <<>>, <<>>), Message("user", <<>>, <<>>)>>

\* _assistant_message_to_dict: the assistant message at position pos with its
\* tool calls, each under the id the service gave it.
AssistantMessage(pos, tcs) == Message("assistant", [i \in DOMAIN tcs |-> <<pos, i>>], <<>>)

\* A tool message that names no call.
ToolMessageUntied(id) == Message("tool", <<>>, <<>>)

\* {"role": "tool", "tool_call_id": tc["id"], "content": ...}
ToolMessage(id) == Message("tool", <<>>, id)

\* The id of the call that is executed next: the assistant message that
\* carries the pending calls is the last assistant message of the log.
PendingId(msgs, pend) ==
    LET a == CHOOSE i \in DOMAIN msgs :
                 /\ msgs[i].role = "assistant"
                 /\ \A j \in DOMAIN msgs : msgs[j].role = "assistant" => j <= i
    IN  msgs[a].tool_calls[Len(msgs[a].tool_calls) - Len(pend) + 1]

Run0 == [pc |-> "idle", validate_only |-> FALSE, step |-> 0, pending |-> <<>>,
         messages |-> <<>>, exc |-> FALSE, wrote |-> {}]

RunsIdle == runs = [r \in RunIds |-> Run0]

RunsInit ==
    \E v \in [RunIds -> BOOLEAN] :
        runs = [r \in RunIds |->
                  [Run0 EXCEPT !.pc = "call", !.validate_only = v[r], !.step = 1,
                               !.messages = Seed]]

\* The paths whose node differs between two filesystems.
Differ(f, g) ==
    {p \in DOMAIN f \cup DOMAIN g : p \notin DOMAIN f \/ p \notin DOMAIN g \/ f[p] # g[p]}

\* The paths one executed tool call wrote: what it changed, and the file a
\* successful fs_write or fs_patch wrote again.
Written(f, tc, res) ==
    Differ(f, res.fs) \cup
    (IF tc.name \in {"fs_write", "fs_patch"} /\ res.ok /\ ~res.skipped
     THEN {Resolve(REPO_ROOT, ArgPath(tc))} ELSE {})

\* The turn after turn s of the for loop, or the finally block.
AfterTurn(run) ==
    IF run.step + 1 > MaxTurns THEN [run EXCEPT !.pc = "finalize"]
    ELSE [run EXCEPT !.pc = "call", !.step = @ + 1]

\* The create call of run r returns: the assistant message is appended; tool
\* calls become pending, DONE: leaves the loop, other text ends the turn.
RunResponds ==
    /\ \E r \in RunIds, kind \in {"text", "done", "tools"}, tcs \in AgentTurns \cup {<<>>} :
         /\ runs[r].pc = "call"
         /\ (kind = "tools") = (tcs # <<>>)
         /\ LET run == [runs[r] EXCEPT
                          !.messages = Append(@, AssistantMessage(Len(@) + 1, tcs))]
            IN  runs' = [runs EXCEPT ![r] =
                    CASE kind = "tools" -> [run EXCEPT !.pc = "tools", !.pending = tcs]
                      [] kind = "done" -> [run EXCEPT !.pc = "finalize"]
                      [] OTHER -> AfterTurn(run)]
    /\ UNCHANGED <<fs, exceptRuns>>

\* The create call of run r ends in asyncio.TimeoutError (break) or in an
\* error _chat_with_retries re-raises: both leave the loop for the finally block.
RunFails ==
    /\ \E r \in RunIds, raised \in BOOLEAN :
         /\ runs[r].pc = "call"
         /\ runs' = [runs EXCEPT ![r] = [@ EXCEPT !.pc = "finalize", !.exc = raised]]
    /\ UNCHANGED <<fs, exceptRuns>>

\* Body of "for tc in assistant_dict['tool_calls']" for the next call of run r.
RunExecTool ==
    /\ \E r \in RunIds :
         /\ runs[r].pc = "tools"
         /\ LET run == runs[r]
                tc == Head(run.pending)
                res == ToolResult(fs, tc, run.validate_only)
                done == [run EXCEPT !.wrote = @ \cup Written(fs, tc, res)]
            IN  /\ fs' = res.fs
                /\ runs' = [runs EXCEPT ![r] =
                      IF tc.shape = "nonobject"
                      THEN [done EXCEPT !.pc = "finalize", !.exc = TRUE]
                      ELSE LET next == [done EXCEPT
                                   !.pending = Tail(@),
                                   !.messages = Append(@, ToolMessage(PendingId(run.messages,
                                                                                run.pending)))]
                           IN  IF Tail(run.pending) = <<>> THEN AfterTurn(next) ELSE next]
    /\ UNCHANGED exceptRuns

\* The finally block of run r and the end of the run: the last-run record is
\* written, then the report is returned or the error raised.
RunFinalize ==
    /\ \E r \in RunIds :
         /\ runs[r].pc = "finalize"
         /\ fs' = _persist_last_run(fs)
         /\ runs' = [runs EXCEPT ![r] =
               [@ EXCEPT !.pc = IF runs[r].exc THEN "raised" ELSE "returned",
                         !.wrote = @ \cup (IF IsFile(fs', Resolve(REPO_ROOT, LAST_RUN_PATH))
                                           THEN {Resolve(REPO_ROOT, LAST_RUN_PATH)} ELSE {})
                                   \cup Differ(fs, fs')]]
    /\ UNCHANGED exceptRuns

RunsNext == RunResponds \/ RunFails \/ RunExecTool \/ RunFinalize

----------------------------------------------------------------------------
(* Job queue (job_queue.py).  Every await of a Redis command is a point     *)
(* where another coroutine or the worker process may run; a command itself  *)
(* is atomic.  Keys do not expire within a run of the model.                *)

Callers == {"c1", "c2"}
MaxDequeues == 2      \* dequeue_next calls of the worker

\* The job a caller built with new_build_job: a fresh uuid per call.
JobOf(c) == c
Jobs == {JobOf(c) : c \in Callers}

Jq0 == [queue |-> <<>>, status |-> [j \in Jobs |-> ""], idem |-> "",
        e |-> [c \in Callers |-> [pc |-> "idle", idem_key |-> "", ret |-> ""]],
        w |-> [pc |-> "idle", job |-> "", n |-> 0, started |-> {}]]

QueueIdle == jq = Jq0

\* Two enqueue_build calls, each with the idem_key "k" or with none, and a
\* worker about to call dequeue_next.
QueueInit ==
    \E k \in [Callers -> {"", "k"}] :
        jq = [Jq0 EXCEPT !.e = [c \in Callers |-> [pc |-> "get", idem_key |-> k[c], ret |-> ""]],
                         !.w = [pc |-> "blpop", job |-> "", n |-> 1, started |-> {}]]

\* existing_id = await r.get("idem:<key>")
IdemGet(pointer) == pointer

\* if job.idem_key: the pointer is read; a live one is returned at once.
EnqGet ==
    /\ \E c \in Callers :
         /\ jq.e[c].pc = "get"
         /\ jq' = IF jq.e[c].idem_key # "" /\ IdemGet(jq.idem) # ""
                  THEN [jq EXCEPT !.e[c].pc = "done", !.e[c].ret = IdemGet(jq.idem)]
                  ELSE [jq EXCEPT !.e[c].pc = "rpush"]
    /\ UNCHANGED exceptQueue

\* await r.rpush(QUEUE_KEY, job.to_json())
EnqPush ==
    /\ \E c \in Callers :
         /\ jq.e[c].pc = "rpush"
         /\ jq' = [jq EXCEPT !.e[c].pc = "hset", !.queue = Append(@, JobOf(c))]
    /\ UNCHANGED exceptQueue

\* await r.hset(job:<id>, mapping=meta) with status "queued", and the expire.
EnqHset ==
    /\ \E c \in Callers :
         /\ jq.e[c].pc = "hset"
         /\ jq' = [jq EXCEPT !.e[c].pc = "setex", !.status[JobOf(c)] = "queued"]
    /\ UNCHANGED exceptQueue

\* if job.idem_key: setex of the pointer; the event; return job.id
EnqSetex ==
    /\ \E c \in Callers :
         /\ jq.e[c].pc = "setex"
         /\ jq' = [jq EXCEPT !.e[c].pc = "done", !.e[c].ret = JobOf(c),
                             !.idem = IF jq.e[c].idem_key # "" THEN JobOf(c) ELSE @]
    /\ UNCHANGED exceptQueue

\* res = await r.blpop(QUEUE_KEY, timeout): the head of the list, or None
\* after the timeout when the list stayed empty.
WorkerPop ==
    /\ jq.w.pc = "blpop"
    /\ jq' = IF jq.queue = <<>> THEN [jq EXCEPT !.w.pc = "done", !.w.job = ""]
             ELSE [jq EXCEPT !.w.pc = "update", !.w.job = Head(jq.queue), !.queue = Tail(@)]
    /\ UNCHANGED exceptQueue

\* update_job_status(job.id, "started"): hset of status and updated_at.
WorkerStart ==
    /\ jq.w.pc = "update"
    /\ jq' = [jq EXCEPT !.w.pc = "done", !.w.started = @ \cup {jq.w.job},
                        !.status[jq.w.job] = "started"]
    /\ UNCHANGED exceptQueue

\* The worker's loop calls dequeue_next again.
WorkerAgain ==
    /\ jq.w.pc = "done" /\ jq.w.n < MaxDequeues
    /\ jq' = [jq EXCEPT !.w.pc = "blpop", !.w.n = @ + 1]
    /\ UNCHANGED exceptQueue

QueueNext ==
    EnqGet \/ EnqPush \/ EnqHset \/ EnqSetex \/ WorkerPop \/ WorkerStart \/ WorkerAgain

----------------------------------------------------------------------------
(* Specifications *)

vars == <<fs, toolVars, agentVars, runnerVars, fixVars, busVars, loopVars, runsVars, queueVars>>

InitTools == fs = HostFs /\ ToolsIdle /\ AgentIdle /\ RunnerIdle /\ FixIdle /\ BusIdle /\ LoopIdle /\ RunsIdle /\ QueueIdle
SpecTools == InitTools /\ [][ToolsNext]_vars

InitAgent == fs = HostFs /\ ToolsIdle /\ AgentInit /\ RunnerIdle /\ FixIdle /\ BusIdle /\ LoopIdle /\ RunsIdle /\ QueueIdle
SpecAgent == InitAgent /\ [][AgentNext]_vars

InitRunner == fs = HostFs /\ ToolsIdle /\ AgentIdle /\ RunnerInit /\ FixIdle /\ BusIdle /\ LoopIdle /\ RunsIdle /\ QueueIdle
SpecRunner == InitRunner /\ [][RunnerNext]_vars

InitFix == ToolsIdle /\ AgentIdle /\ RunnerIdle /\ FixInit /\ BusIdle /\ LoopIdle /\ RunsIdle /\ QueueIdle
SpecFix == InitFix /\ [][FixNext]_vars

InitBus == fs = HostFs /\ ToolsIdle /\ AgentIdle /\ RunnerIdle /\ FixIdle /\ BusIdle /\ LoopIdle /\ RunsIdle /\ QueueIdle
SpecBus == InitBus /\ [][BusNext]_vars

InitLoop == fs = HostFs /\ ToolsIdle /\ AgentIdle /\ RunnerIdle /\ FixIdle /\ BusIdle /\ LoopInit /\ RunsIdle /\ QueueIdle
SpecLoop == InitLoop /\ [][LoopNext]_vars

\* run_compile_loop runs on its caller's thread and every command returns
\* or raises: a step that can be taken is taken.
SpecLoopFair == SpecLoop /\ WF_vars(LoopNext)

InitRuns == fs = HostFs /\ ToolsIdle /\ AgentIdle /\ RunnerIdle /\ FixIdle /\ BusIdle /\ LoopIdle /\ RunsInit /\ QueueIdle
SpecRuns == InitRuns /\ [][RunsNext]_vars

InitQueue ==
    /\ fs = HostFs /\ ToolsIdle /\ AgentIdle /\ RunnerIdle /\ FixIdle /\ BusIdle /\ LoopIdle
    /\ RunsIdle /\ QueueInit
SpecQueue == InitQueue /\ [][QueueNext]_vars

----------------------------------------------------------------------------
(* Claims *)

\* The tools that take a path and fall under the confinement rule.
PathTools == {"fs_map", "fs_read", "fs_write", "fs_mkdir", "fs_delete", "fs_patch", "fs_diff"}

Escapes(path) == ~IsWithin(REPO_ROOT, Resolve(REPO_ROOT, path))

\* C1: a call of a filesystem tool whose path resolves outside the project
\* root returns ok=false and leaves the filesystem as it was.
C1_EscapeRejected ==
    (last.name \in PathTools /\ last.shape = "object" /\ Escapes(last.path))
        => (~last.ok /\ fs = last.before)

\* C2: no exception escapes adapt_repository_with_agent; the caller always
\* gets a report.
C2_NoExceptionEscapes == apc # "raised"

Ended == apc \in {"exit", "returned", "raised"}

GlobEntries(log) == {i \in DOMAIN log : log[i].name = "fs_glob"}

\* C3: whatever ends the turn loop, finalization runs exactly once before the
\* run ends; after it the tool log holds the inventory globs and an fs_diff
\* entry, and finalization adds an fs_diff entry exactly when there was none.
C3_FinalizationOnce ==
    /\ [](/\ Ended => (/\ hist.nfinal = 1
                       /\ Cardinality(GlobEntries(tool_log)) >= Len(GlobPatterns)
                       /\ DiffEntries(tool_log) # {})
          /\ ~Ended /\ apc # "idle" => hist.nfinal = 0)
    /\ [][apc = "finalize" =>
            /\ apc' = "exit"
            /\ Cardinality(DiffEntries(tool_log')) =
                  Cardinality(DiffEntries(tool_log)) + (IF DiffEntries(tool_log) = {} THEN 1 ELSE 0)
            /\ Len(tool_log') = Len(tool_log) + Len(GlobPatterns)
                                 + (IF DiffEntries(tool_log) = {} THEN 1 ELSE 0)
            /\ SubSeq(tool_log', 1, Len(tool_log)) = tool_log]_vars

C3_Witness ==
    /\ apc = "raised" /\ hist.exit = "error" /\ hist.nfinal = 1
    /\ DiffEntries(tool_log) # {}

\* C4: a client that always answers at once with plain text, never DONE:, is
\* called exactly loop_steps times; the run then finalizes and returns a report
\* with a non-empty summary and a diff preview.
C4_TurnCap ==
    hist.onlyText =>
        /\ hist.calls <= loop_steps
        /\ apc # "raised"
        /\ apc \in {"finalize", "exit", "returned"} => hist.calls = loop_steps /\ hist.exit = "cap"
        /\ apc = "returned" =>
              /\ hist.nfinal = 1
              /\ report.returned
              /\ report.summary # ""
              /\ report.diff_preview # Null

C4_Witness ==
    /\ apc = "returned" /\ hist.onlyText /\ hist.calls = loop_steps
    /\ report.diff_preview # Null

\* The floor of the per-turn timeout: the least any turn may overrun by.
Epsilon == 1

\* C5: the time from the start of the run to the end of its last turn never
\* exceeds the wall-clock budget by more than a small constant.
C5_WithinBudget == now <= cfg.budget + Epsilon

WriteyEntries(log) == {i \in DOMAIN log : log[i].name \in WRITEY}

\* What _persist_last_run may create under the project root.
LastRunPaths == {Resolve(REPO_ROOT, SubSeq(LAST_RUN_PATH, 1, n)) : n \in 1..Len(LAST_RUN_PATH)}

SameExcept(f, g, paths) ==
    \A p \in (DOMAIN f \cup DOMAIN g) \ paths : p \in DOMAIN f /\ p \in DOMAIN g /\ f[p] = g[p]

\* C6 as stated: under validate_only every mutating tool call is answered
\* ok/skipped and the filesystem is identical before and after the run,
\* finalization included.
C6_ValidateOnlyUntouched ==
    cfg.validate_only =>
        /\ \A i \in WriteyEntries(tool_log) : tool_log[i].ok /\ tool_log[i].skipped
        /\ fs = HostFs

\* C6 amended: ... and the filesystem is identical before and after the run
\* except for the persisted last-run record workspace/.omega/last_run.json and
\* the directories holding it.
C6_ValidateOnlyExceptLastRun ==
    cfg.validate_only =>
        /\ \A i \in WriteyEntries(tool_log) : tool_log[i].ok /\ tool_log[i].skipped
        /\ SameExcept(fs, HostFs, LastRunPaths)

C6_Witness ==
    /\ cfg.validate_only /\ apc = "returned"
    /\ \E i \in WriteyEntries(tool_log) : tool_log[i].skipped
    /\ IsFile(fs, Resolve(REPO_ROOT, LAST_RUN_PATH))

\* The bound on how late the kill may come after the idle threshold.
RunnerDelta == 1

\* C7: a process that stays silent and does not exit is killed, and the
\* runner returns, within watchdog_idle_sec plus a small delta of its last
\* output.
C7_IdleProcessKilled ==
    (proc.alive /\ clock - proc.lastOutput > WatchdogIdle + RunnerDelta) => rn.pc = "done"

Visible(r) == <<r.rc, r.seconds, r.stdout, r.stderr>>

\* C8: results of different outcomes (watchdog kill, hard-timeout kill,
\* natural exit) are never equal, whatever the process writes and returns.
C8_OutcomesDistinct ==
    (rn.pc = "done" /\ prev.result.outcome # "none" /\ Visible(rresult) = Visible(prev.result))
        => rresult.outcome = prev.result.outcome

\* C9: a second application of _apply_fixes with the same diagnostic text
\* creates no file and changes no file's content.
C9_SecondPassNoChange == fx.pass = 2 => fs = fx.snap

\* C10: every file the repairer writes lies inside the project root, and a
\* derived path that escapes the root is replaced by a path under
\* lib/shared/autofix.
C10_WritesConfined ==
    fx.last.wrote =>
        /\ IsWithin(APP_DIR, fx.last.target)
        /\ ~IsWithin(APP_DIR, fx.last.desired) =>
               (IsPrefix(AUTOFIX, fx.last.target) /\ fx.last.target # AUTOFIX)

ProtectedNames == {"backend"}

Beneath(f, p) == {q \in DOMAIN f : IsPrefix(p, q)}

\* C17: a delete call whose target is a protected top-level name of the
\* project root returns ok=false and leaves the target and everything
\* beneath it in place.
C17_ProtectedDeleteRefused ==
    \A n \in ProtectedNames :
        (/\ last.name = "fs_delete" /\ last.shape = "object"
         /\ Resolve(REPO_ROOT, last.path) = Append(REPO_ROOT, n)
         /\ Exists(last.before, Append(REPO_ROOT, n)))
        => (/\ ~last.ok
            /\ Beneath(last.before, Append(REPO_ROOT, n)) \subseteq DOMAIN fs)

\* The safety margin subtracted from the remaining budget.
SafetyMargin == 1

\* C19: a text-generation call is started only while the remaining budget
\* is positive, with a timeout equal to min(per-turn timeout, remaining
\* budget - safety margin), which is strictly shorter than the remaining
\* budget.
C19_TimeoutBelowRemaining ==
    apc = "call" =>
        LET remaining == _sec_remaining(cfg.budget, callStart)
        IN  /\ remaining > 0
            /\ per_turn_budget = Min(cfg.turn_timeout, remaining - SafetyMargin)
            /\ per_turn_budget < remaining

TimeoutEntries(log) == {i \in DOMAIN log : log[i] = TimeoutEntry}

\* C20: once a text-generation call has exceeded its per-turn timeout, the
\* tool log holds one failed model_call_timeout entry, no further call is
\* made, the run goes to finalization and returns without raising.
C20_TimeoutStopsRun ==
    hist.overran =>
        /\ Cardinality(TimeoutEntries(tool_log)) = 1
        /\ apc \in {"finalize", "exit", "returned"}
        /\ ~exc

\* C18: the progress values a subscriber sees for one agent run, from the
\* start event to the terminal done or error event, all lie in [0,1] and
\* never decrease.
C18_ProgressMonotone == pbar.ok

\* The events published since the subscriber registered.
Since(s) == SubSeq(bus.published, bus.joined[s] + 1, Len(bus.published))

\* C12: a registered subscriber whose buffer never filled has received, or
\* holds in its buffer, every event published since it registered, each
\* once and in publish order.
C12_AllDeliveredInOrder ==
    \A s \in bus.subs \ bus.dropped : bus.recv[s] \o bus.q[s] = Since(s)

C12_Witness ==
    /\ bus.subs = Subscribers /\ bus.dropped = {}
    /\ \A s \in Subscribers : Len(bus.recv[s]) >= 2
    /\ \E i, j \in DOMAIN bus.published : bus.published[i][1] # bus.published[j][1]

\* C13: a publish call against a full buffer removes that buffer's oldest
\* event and appends the new one at its tail, changes every other buffer
\* by appending only, and is never kept waiting by a full buffer.
C13_PublishDropsOldestOnly ==
    /\ [][bus'.published # bus.published =>
            \A s \in bus.subs :
                LET e == bus'.published[Len(bus'.published)]
                IN  bus'.q[s] = IF Len(bus.q[s]) >= max_queue_size
                                THEN Append(Tail(bus.q[s]), e)
                                ELSE Append(bus.q[s], e)]_vars
    /\ [](Len(bus.published) < MaxPublish => ENABLED Publish)

C13_Witness ==
    \E s, t \in bus.subs :
        /\ s \in bus.dropped /\ t \notin bus.dropped
        /\ Len(bus.q[s]) = max_queue_size
        /\ bus.q[s][max_queue_size] = bus.published[Len(bus.published)]

\* The scenario: the first analyze fails on a missing import target, one
\* repair pass follows, the analyze after it passes, and the smoke test,
\* when tests are asked for, passes.
RepairScenario ==
    /\ cl.pc = "returned"
    /\ cl.hist = IF cl.run_tests THEN <<"fail_uri", "repair", "pass", "smoke_pass">>
                 ELSE <<"fail_uri", "repair", "pass">>

\* C11 as stated: the repair scenario ends with ok = true and exactly two
\* recorded rounds.
C11_ScenarioTwoRounds == RepairScenario => cl.ok /\ Len(cl.rounds) = 2

\* C11: the repair scenario ends with ok = true and exactly one recorded
\* round, the analyze after the repair belonging to the round of the repair.
C11_ScenarioOneRound ==
    RepairScenario =>
        /\ cl.ok /\ Len(cl.rounds) = 1
        /\ cl.rounds[1].pub_get_run /\ "uri" \in cl.rounds[1].fixes
        /\ cl.rounds[1].analyze = 0

C11_Witness == RepairScenario /\ cl.run_tests /\ cl.rounds[1].tests = Rc(0)

\* C15: no TimeoutExpired of a command leaves run_compile_loop; the loop
\* returns its report.
C15_TimeoutIsStructured == cl.pc = "raised" => cl.exc # "TimeoutExpired"

\* C16: a returned report has ok = true exactly when the last recorded round
\* has a final analyze exit code of 0 and tests that are absent or exited 0.
C16_OkIffLastRoundPassed ==
    cl.pc = "returned" =>
        (cl.ok <=> /\ cl.rounds # <<>>
                   /\ cl.rounds[Len(cl.rounds)].analyze = 0
                   /\ \/ ~cl.rounds[Len(cl.rounds)].tests.present
                      \/ cl.rounds[Len(cl.rounds)].tests.rc = 0)

C16_Witness ==
    /\ cl.pc = "returned" /\ cl.ok /\ Len(cl.rounds) = max_rounds
    /\ cl.rounds[1].analyze = 0 /\ cl.rounds[1].tests.rc = 124
    /\ cl.rounds[max_rounds].tests = Rc(0)

\* The last event of the loop's history is e.
LastEvent(e) == cl.hist # <<>> /\ cl.hist[Len(cl.hist)] = e

\* C23: after a repair pass that changed nothing in the tree the loop has
\* stopped in that round: ok = false, the round recorded with its failing
\* analyze and no test.
C23_StopsWhenNothingRepaired ==
    (LastEvent("repair") /\ cl.fixes \cap Changing = {}) =>
        /\ cl.pc = "returned" /\ ~cl.ok
        /\ Len(cl.rounds) = cl.r
        /\ cl.rounds[cl.r].analyze # 0 /\ ~cl.rounds[cl.r].tests.present

\* C24: a recorded round that ran tests has a final analyze exit code of 0.
C24_TestsOnlyAfterAnalyzePassed ==
    \A i \in DOMAIN cl.rounds : cl.rounds[i].tests.present => cl.rounds[i].analyze = 0

\* C25: round 1 tests are the smoke test; a later round runs the whole suite
\* exactly when a smoke run of an earlier round exited 0, and the smoke test
\* otherwise.
C25_SuiteOnlyAfterSmokePassed ==
    \A i \in DOMAIN cl.tested :
        cl.tested[i].kind = "suite" <=>
            /\ cl.tested[i].round > 1
            /\ \E j \in 1..(i - 1) :
                 /\ cl.tested[j].kind = "smoke" /\ cl.tested[j].rc = 0
                 /\ cl.tested[j].round < cl.tested[i].round

C25_Witness ==
    /\ Len(cl.tested) = 3
    /\ cl.tested[1] = [round |-> 1, rc |-> 124, kind |-> "smoke"]
    /\ cl.tested[2] = [round |-> 2, rc |-> 0, kind |-> "smoke"]
    /\ cl.tested[3].kind = "suite"

\* C26: the returned report records every round whose analyze was executed.
C26_EveryAnalyzedRoundRecorded ==
    cl.pc = "returned" => Len(cl.rounds) = cl.analyzed

\* A recorded round that succeeded.
Passed(rd) == rd.analyze = 0 /\ (rd.tests.present => rd.tests.rc = 0)

\* C27: the loop ends; it starts at most max_rounds rounds, the recorded
\* rounds are numbered 1..k with k <= max_rounds, and no round follows a
\* round that succeeded.
C27_BoundedRounds ==
    /\ [](/\ cl.r <= cl.max_rounds
          /\ Len(cl.rounds) <= cl.r
          /\ \A i \in DOMAIN cl.rounds : cl.rounds[i].round = i
          /\ \A i \in DOMAIN cl.rounds : Passed(cl.rounds[i]) => cl.r = i)
    /\ <>(cl.pc \in {"returned", "raised"})

C27_Witness ==
    /\ cl.pc = "returned" /\ ~cl.ok /\ cl.max_rounds = 2 /\ Len(cl.rounds) = 2
    /\ cl.rounds[2].round = 2

\* The assistant message at position i is followed by the results of its
\* calls, one per call, in the order of the calls and under their ids, and
\* by no further tool message.
Answered(msgs, i) ==
    LET k == Len(msgs[i].tool_calls)
    IN  /\ i + k <= Len(msgs)
        /\ \A j \in 1..k :
             msgs[i + j].role = "tool" /\ msgs[i + j].tool_call_id = msgs[i].tool_calls[j]
        /\ i + k < Len(msgs) => msgs[i + k + 1].role # "tool"

\* C21: when a run issues a create call every assistant message of its log
\* is followed by exactly the results of its tool calls, in order and under
\* their ids, a tool message follows nothing else, and a step only ever
\* appends to a log.
C21_LogWellFormed ==
    /\ [](\A r \in RunIds : runs[r].pc = "call" =>
            LET messages == runs[r].messages
            IN  /\ \A i \in DOMAIN messages :
                     messages[i].role = "assistant" => Answered(messages, i)
                /\ \A i \in DOMAIN messages :
                     messages[i].role = "tool" =>
                         i > 1 /\ messages[i - 1].role \in {"assistant", "tool"})
    /\ [][\A r \in RunIds :
            /\ Len(runs'[r].messages) >= Len(runs[r].messages)
            /\ SubSeq(runs'[r].messages, 1, Len(runs[r].messages)) = runs[r].messages]_vars

C21_Witness ==
    \E r \in RunIds :
        /\ runs[r].pc = "call"
        /\ \E i \in DOMAIN runs[r].messages :
             Len(runs[r].messages[i].tool_calls) = 2 /\ i + 2 = Len(runs[r].messages)

\* C28: no path is written by two runs.
C28_RunsWriteApart ==
    \A r, q \in RunIds : r # q => runs[r].wrote \cap runs[q].wrote = {}

\* The job payloads pushed so far: those on the list and those popped.
Pushed == {c \in Callers : jq.e[c].pc \in {"hset", "setex"} \/ jq.e[c].ret = JobOf(c)}

\* C29: when the calls carry the same idem_key, at most one job payload is
\* pushed and every finished call returned that job's id.
C29_OneJobPerIdemKey ==
    (\A c \in Callers : jq.e[c].idem_key = "k") =>
        /\ \A c, d \in Pushed : c = d
        /\ \A c, d \in Callers :
             (jq.e[c].pc = "done" /\ jq.e[d].pc = "done") => jq.e[c].ret = jq.e[d].ret

\* C30: once enqueue_build of a job and the dequeue_next that popped it have
\* both finished, the job's status is "started".
C30_StartedStays ==
    \A c \in Callers :
        (jq.e[c].ret = JobOf(c) /\ JobOf(c) \in jq.w.started /\ jq.w.pc = "done") =>
            jq.status[JobOf(c)] = "started"

\* C22: one _chat_with_retries call makes at most max_attempts create calls;
\* it calls again only after a 429/5xx failure with attempts left; an error
\* that is not transient is raised by the call that met it; a transient
\* error is raised only by the last attempt; a response ends the call.
C22_BoundedRetries ==
    /\ [](apc = "call" => attempt < max_attempts)
    /\ [][/\ attempt' > attempt =>
                /\ apc' = "call" /\ hist'.calls = hist.calls + 1
                /\ hist'.transient = hist.transient + 1
                /\ attempt' < max_attempts
          /\ (apc = "call" /\ exc' /\ hist'.transient = hist.transient) =>
                hist'.calls = hist.calls + 1 /\ now' - now \in Latencies
          /\ (apc = "call" /\ exc' /\ hist'.transient > hist.transient) =>
                attempt + 1 = max_attempts
          /\ (apc = "call" /\ apc' \in {"head", "tools"}) =>
                hist'.calls = hist.calls + 1 /\ attempt' = 0]_vars

C22_Witness ==
    /\ exc /\ apc = "finalize"
    /\ hist.calls = max_attempts /\ hist.transient = max_attempts

====
